---- MODULE Spec2Model ----
(***************************************************************************)
(* State-machine model of the Sony camera BLE remote client               *)
(* (sony_remote_ble/client.go, sony_remote_ble/commands.go).              *)
(*                                                                         *)
(* Control tasks are goroutines calling the Client's public methods (in   *)
(* the TUI every tea.Cmd runs in its own goroutine while Update runs on   *)
(* the event loop).  A method is split into one action per radio call or  *)
(* guarded section, so that the interleavings the Go scheduler permits    *)
(* between a state check and the radio call that follows it are part of   *)
(* the behaviours.  The radio (tinygo bluetooth) is the environment: every *)
(* radio call nondeterministically succeeds or fails.                     *)
(***************************************************************************)
EXTENDS Naturals, Integers, Sequences, FiniteSets, TLC

(* ------------------------------ bounds -------------------------------- *)
MaxSeqLen == 2
MaxLinks == 2
QueueCap == 1

(* --------------------------- ConnectionState -------------------------- *)
Disconnected == "Disconnected"
Scanning == "Scanning"
Connecting == "Connecting"
Connected == "Connected"
Error == "Error"
ConnectionState == {Disconnected, Scanning, Connecting, Connected, Error}

(* ------------------------------- errors ------------------------------- *)
(* An error value is a tuple of strings: the message followed by the      *)
(* wrapped cause; the nil error is the empty tuple.                       *)
Nil == <<>>
ErrNotConnected == <<"not connected to device">>
ErrConnect == <<"failed to connect", "radio: connect failed">>
ErrDiscoverServices == <<"failed to discover services", "radio: discovery failed">>
ErrServiceNotFound == <<"Sony camera service not found">>
ErrDiscoverChars == <<"failed to discover characteristics", "radio: discovery failed">>
ErrCharNotFound == <<"command characteristic not found">>
ErrDisconnect == <<"radio: disconnect failed">>
ErrScan == <<"radio: scan failed">>
ErrSend(cmd) == <<"failed to send command", cmd.Name, "radio: write failed">>

(* --------------------------- command registry ------------------------- *)
SonyCommand(name, code) == [Name |-> name, Code |-> code]

CommandKeys ==
  {"focus_down", "focus_up", "autofocus_down", "autofocus_up",
   "shutter_half_down", "shutter_half_up", "shutter_full_down",
   "shutter_full_up", "record_toggle", "record_down", "zoom_in_down",
   "zoom_in_up", "zoom_out_down", "zoom_out_up", "c1_down", "c1_up"}

Commands ==
  [k \in CommandKeys |->
     CASE k = "focus_down" -> SonyCommand("Focus Down", <<1, 7>>)
       [] k = "focus_up" -> SonyCommand("Focus Up", <<1, 6>>)
       [] k = "autofocus_down" -> SonyCommand("AutoFocus Down", <<1, 21>>)
       [] k = "autofocus_up" -> SonyCommand("AutoFocus Up", <<1, 20>>)
       [] k = "shutter_half_down" -> SonyCommand("Shutter Half Down", <<1, 7>>)
       [] k = "shutter_half_up" -> SonyCommand("Shutter Half Up", <<1, 6>>)
       [] k = "shutter_full_down" -> SonyCommand("Shutter Full Down", <<1, 9>>)
       [] k = "shutter_full_up" -> SonyCommand("Shutter Full Up", <<1, 8>>)
       [] k = "record_toggle" -> SonyCommand("Toggle Record", <<1, 14>>)
       [] k = "record_down" -> SonyCommand("Record Down", <<1, 15>>)
       [] k = "zoom_in_down" -> SonyCommand("Zoom In Down", <<2, 109, 32>>)
       [] k = "zoom_in_up" -> SonyCommand("Zoom In Up", <<2, 108, 0>>)
       [] k = "zoom_out_down" -> SonyCommand("Zoom Out Down", <<2, 107, 32>>)
       [] k = "zoom_out_up" -> SonyCommand("Zoom Out Up", <<2, 106, 0>>)
       [] k = "c1_down" -> SonyCommand("C1 Down", <<1, 33>>)
       [] k = "c1_up" -> SonyCommand("C1 Up", <<1, 32>>)]

(* Mutant of TakePhotoSequence: the shutter is released before it is      *)
(* pressed.                                                               *)
TakePhotoSequenceSwapped ==
  <<Commands["focus_down"], Commands["shutter_full_up"],
    Commands["shutter_full_down"], Commands["focus_up"]>>

(* TakePhotoSequence(): lines 117-124. *)
TakePhotoSequence ==
  <<Commands["focus_down"], Commands["shutter_full_down"],
    Commands["shutter_full_up"], Commands["focus_up"]>>

(* ------------------------------- inputs ------------------------------- *)
Tasks == {"t1", "t2"}
ScanSlots == {"s1"}
(* Goroutines of ScanForDevices calls made while those of ScanSlots are   *)
(* all running.                                                           *)
SpareScanSlots == {"s2"}
AllScanSlots == ScanSlots \cup SpareScanSlots
(* Keys the TUI's sendCommand is given: one of the registry, one not. *)
KeyInputs == {"focus_down", "self_timer"}
(* Keys the callers send one at a time (the TUI's control keys). *)
SendKeys == {"focus_down"}
(* Command lists the callers pass to SendCommandSequence: the prefixes of *)
(* a list of commands with pairwise different byte-codes.                 *)
SeqKeys == <<"focus_down", "shutter_full_down", "zoom_in_down", "zoom_in_up">>
CommandLists ==
  {[i \in 1..n |-> Commands[SeqKeys[i]]] : n \in 0..MaxSeqLen}

(* A bluetooth.Address is an opaque platform value; String() is its       *)
(* canonical text form.                                                   *)
AddressString(a) ==
  CASE a = 1 -> "AA:BB:CC:DD:EE:FF"
    [] a = 2 -> "11:22:33:44:55:66"
Addresses == {1}

(* ------------------------- identifier filter -------------------------- *)
(* A name is the sequence of its bytes, one string per byte; the alpha    *)
(* symbol is the two bytes of its UTF-8 encoding.                         *)
sonyIdentifiers ==
  << <<"S", "o", "n", "y">>,
     <<"I", "L", "C", "E">>,
     <<"D", "S", "C">>,
     <<"F", "X">>,
     <<"xCE", "xB1">>,
     <<"A", "l", "p", "h", "a">> >>

(* Mutant of containsSonyIdentifier: the inner loop stops one position    *)
(* short (i < len(name)-len(identifier)).                                 *)
containsSonyIdentifierShortLoop(name) ==
  \E k \in 1..Len(sonyIdentifiers) :
    LET identifier == sonyIdentifiers[k] IN
      /\ Len(name) >= Len(identifier)
      /\ \E i \in 0..(Len(name) - Len(identifier) - 1) :
           SubSeq(name, i + 1, i + Len(identifier)) = identifier

containsSonyIdentifier(name) ==
  \E k \in 1..Len(sonyIdentifiers) :
    LET identifier == sonyIdentifiers[k] IN
      /\ Len(name) >= Len(identifier)
      /\ \E i \in 0..(Len(name) - Len(identifier)) :
           SubSeq(name, i + 1, i + Len(identifier)) = identifier

(* Names the filter is tried on: each core, alone and with a byte before  *)
(* and after it.  The cores are the identifiers and strings close to      *)
(* them (other case, a letter short, bytes of the alpha symbol alone or   *)
(* swapped, an identifier split by a dash), the empty name and a          *)
(* headphone's name.                                                      *)
FilterCores ==
  { <<"S", "o", "n", "y">>, <<"I", "L", "C", "E">>, <<"D", "S", "C">>,
    <<"F", "X">>, <<"xCE", "xB1">>, <<"A", "l", "p", "h", "a">>,
    <<"s", "o", "n", "y">>, <<"i", "l", "c", "e">>, <<"d", "s", "c">>,
    <<"F", "x">>, <<"a", "l", "p", "h", "a">>, <<"I", "L", "C">>,
    <<"D", "S">>, <<"xCE">>, <<"xB1", "xCE">>, <<"I", "L", "-", "C", "E">>,
    <<>>, <<"W", "H", "-", "1", "0", "0", "0">> }
FilterPrefixes == {<<>>, <<"x">>}
FilterSuffixes == {<<>>, <<"7">>}
FilterNames ==
  {a \o c \o b : a \in FilterPrefixes, b \in FilterSuffixes, c \in FilterCores}
FilterAdvertisements ==
  {[LocalName |-> n, Address |-> 1, RSSI |-> -45] : n \in FilterNames}

(* Advertisements the radio may report to the scan callback. *)
Advertisements ==
  { [LocalName |-> <<"I", "L", "C", "E", "-", "7", "M", "4">>, Address |-> 1, RSSI |-> -45],
    [LocalName |-> <<"I", "L", "C", "E", "-", "7", "M", "4">>, Address |-> 1, RSSI |-> -52],
    [LocalName |-> <<"D", "S", "C", "-", "R", "X", "0">>, Address |-> 2, RSSI |-> -60],
    [LocalName |-> <<>>, Address |-> 2, RSSI |-> -60],
    [LocalName |-> <<"W", "H", "-", "1", "0", "0", "0">>, Address |-> 2, RSSI |-> -70] }

(* The DeviceInfo the callback builds from a scan result (lines 194-199). *)
DeviceInfo(result) ==
  [Name |-> result.LocalName, Address |-> result.Address,
   AddressStr |-> AddressString(result.Address), RSSI |-> result.RSSI]

(* ------------------------------- state -------------------------------- *)
VARIABLES
  state,       \* Client.state
  lastError,   \* Client.lastError
  deviceName,  \* Client.deviceName
  device,      \* Client.device: link id of the handle, 0 for the zero value
  char,        \* Client.char: link id the characteristic belongs to, 0 if unset
  stopScan,    \* Client.stopScan: number of values buffered in the channel (cap 1)
  links,       \* radio: ids of the link-layer connections that are open
  ctxDone,     \* the context passed to ScanForDevices has been cancelled
  deviceChan,  \* the channel passed to ScanForDevices
  scanPc,      \* position of each scan goroutine
  scanPending, \* the DeviceInfo a blocked callback is waiting to send
  scanStopped, \* a StopScan called while the goroutine was running has returned
  devices,     \* Model.devices of the TUI
  scanning,    \* Model.scanning of the TUI
  mode,        \* Model.mode of the TUI
  buttonStates,\* Model.buttonStates of the TUI: a map from string to bool
  call         \* call frame of each control task

clientVars == <<state, lastError, deviceName, device, char, stopScan>>
radioVars == <<links>>
scanVars == <<ctxDone, deviceChan, scanPc, scanPending, scanStopped>>
uiVars == <<devices, scanning, mode, buttonStates>>
taskVars == <<call>>
vars == <<clientVars, radioVars, scanVars, uiVars, taskVars>>

(* A call frame: pc is the position in the method (idle between calls),   *)
(* op the method, arg Connect's address, cmds and idx the command list    *)
(* and the loop index of a send, sent the byte-codes the call has written *)
(* in write order, cut whether another task's write has reached the       *)
(* characteristic since this call's latest write, dev Connect's local     *)
(* variable device, steps the handshake steps the call has performed with *)
(* their results, scans the scan goroutines that have been running since  *)
(* a StopScan was called, and ret the value the method returned.          *)
IdleFrame ==
  [pc |-> "idle", op |-> "none", arg |-> 0, cmds |-> <<>>, idx |-> 0,
   sent |-> <<>>, cut |-> FALSE, dev |-> 0, steps |-> <<>>, scans |-> {},
   ret |-> Nil]

(* AppMode (the TUI). *)
ModeDeviceList == "ModeDeviceList"
ModeControl == "ModeControl"

(* NewClient: state Disconnected, empty stopScan channel of capacity 1.   *)
(* NewModel: the device list, not scanning, an empty list and map.        *)
Init ==
  /\ state = Disconnected
  /\ lastError = Nil
  /\ deviceName = ""
  /\ device = 0
  /\ char = 0
  /\ stopScan = 0
  /\ links = {}
  /\ ctxDone = FALSE
  /\ deviceChan = <<>>
  /\ scanPc = [i \in AllScanSlots |-> "none"]
  /\ scanPending = [i \in AllScanSlots |-> 0]
  /\ scanStopped = [i \in AllScanSlots |-> FALSE]
  /\ devices = <<>>
  /\ scanning = FALSE
  /\ mode = ModeDeviceList
  /\ buttonStates = <<>>
  /\ call = [t \in Tasks |-> IdleFrame]

(* Moving on inside a method: f is the task's next frame. *)
Step(t, f) == call' = [call EXCEPT ![t] = f]

(* Returning e: the frame keeps what the call was given and did (op,      *)
(* cmds, sent, steps) and what it returned; its locals are gone.          *)
Returned(f, e) ==
  [IdleFrame EXCEPT !.op = f.op, !.cmds = f.cmds, !.sent = f.sent,
                    !.steps = f.steps, !.ret = e]

Return(t, f, e) == call' = [call EXCEPT ![t] = Returned(f, e)]

(* The frame of a call that has written and is still running, once        *)
(* another task's write reaches the characteristic.                       *)
Overtaken(f) ==
  IF f.pc # "idle" /\ f.sent # <<>> THEN [f EXCEPT !.cut = TRUE] ELSE f

(* ------------------------------ Connect ------------------------------- *)
(* Mutant of Connect: the last error is not cleared. *)
ConnectKeepsError(t, a) ==
  /\ call[t].pc = "idle"
  /\ Step(t, [IdleFrame EXCEPT !.pc = "c_link", !.op = "Connect", !.arg = a])
  /\ state' = Connecting
  /\ UNCHANGED <<lastError, deviceName, device, char, stopScan>>
  /\ UNCHANGED <<radioVars, scanVars, uiVars>>

(* Lines 254-258: mark Connecting, clear the error, call adapter.Connect. *)
Connect(t, a) ==
  /\ call[t].pc = "idle"
  /\ Step(t, [IdleFrame EXCEPT !.pc = "c_link", !.op = "Connect", !.arg = a])
  /\ state' = Connecting
  /\ lastError' = Nil
  /\ UNCHANGED <<deviceName, device, char, stopScan>>
  /\ UNCHANGED <<radioVars, scanVars, uiVars>>

(* Mutant of ConnectFail: the error is recorded and returned but the      *)
(* state is left at Connecting.                                           *)
ConnectFailKeepsState(t, step, why, e) ==
  /\ lastError' = e
  /\ state' = state
  /\ Return(t, [call[t] EXCEPT !.steps = Append(@, <<step, why>>)], e)

(* A failing handshake step: record the error, state Error, return it     *)
(* (lines 259-263, 269-273, 275-279, 285-289, 291-295).                   *)
ConnectFail(t, step, why, e) ==
  /\ lastError' = e
  /\ state' = Error
  /\ Return(t, [call[t] EXCEPT !.steps = Append(@, <<step, why>>)], e)

(* Link ids the radio can hand out: not open and not held by any handle, *)
(* so that a stale handle never names a newer link.                       *)
FreeLinks ==
  (1..MaxLinks) \ (links \cup {device, char}
                         \cup {call[t].dev : t \in Tasks})

(* Lines 258-268: adapter.Connect returned; on success keep the device    *)
(* and call DiscoverServices on it.                                       *)
ConnectLink(t) ==
  /\ call[t].pc = "c_link"
  /\ \/ /\ ConnectFail(t, "link", "err", ErrConnect)
        /\ UNCHANGED <<device, links>>
     \/ /\ FreeLinks # {}
        /\ LET id == CHOOSE l \in FreeLinks : \A m \in FreeLinks : l <= m
           IN /\ links' = links \cup {id}
              /\ device' = id
              /\ Step(t, [call[t] EXCEPT !.pc = "c_svc", !.dev = id,
                                         !.steps = Append(@, <<"link", "ok">>)])
        /\ UNCHANGED <<state, lastError>>
  /\ UNCHANGED <<deviceName, char, stopScan>>
  /\ UNCHANGED <<scanVars, uiVars>>

(* Mutant of ConnectServices: an empty service list is not checked for,   *)
(* and the handshake goes on to the characteristics.                      *)
ConnectServicesNoEmptyCheck(t) ==
  /\ call[t].pc = "c_svc"
  /\ \/ ConnectFail(t, "svc", "err", ErrDiscoverServices)
     \/ /\ Step(t, [call[t] EXCEPT !.pc = "c_char",
                                   !.steps = Append(@, <<"svc", "zero">>)])
        /\ UNCHANGED <<state, lastError>>
     \/ /\ Step(t, [call[t] EXCEPT !.pc = "c_char",
                                   !.steps = Append(@, <<"svc", "ok">>)])
        /\ UNCHANGED <<state, lastError>>
  /\ UNCHANGED <<deviceName, device, char, stopScan>>
  /\ UNCHANGED <<radioVars, scanVars, uiVars>>

(* Lines 268-284: DiscoverServices returned; on success services[0] is    *)
(* stored in c.service and DiscoverCharacteristics is called on it in the *)
(* same step, so the field needs no variable of its own: the service is   *)
(* that of the call's own device.                                         *)
ConnectServices(t) ==
  /\ call[t].pc = "c_svc"
  /\ \/ ConnectFail(t, "svc", "err", ErrDiscoverServices)
     \/ ConnectFail(t, "svc", "zero", ErrServiceNotFound)
     \/ /\ Step(t, [call[t] EXCEPT !.pc = "c_char",
                                   !.steps = Append(@, <<"svc", "ok">>)])
        /\ UNCHANGED <<state, lastError>>
  /\ UNCHANGED <<deviceName, device, char, stopScan>>
  /\ UNCHANGED <<radioVars, scanVars, uiVars>>

(* Lines 284-301: DiscoverCharacteristics returned; on success keep       *)
(* chars[0], become Connected and take the address as the device name.    *)
ConnectChars(t) ==
  /\ call[t].pc = "c_char"
  /\ \/ /\ ConnectFail(t, "char", "err", ErrDiscoverChars)
        /\ UNCHANGED <<char, deviceName>>
     \/ /\ ConnectFail(t, "char", "zero", ErrCharNotFound)
        /\ UNCHANGED <<char, deviceName>>
     \/ /\ char' = call[t].dev
        /\ state' = Connected
        /\ deviceName' = AddressString(call[t].arg)
        /\ Return(t, [call[t] EXCEPT !.steps = Append(@, <<"char", "ok">>)], Nil)
        /\ UNCHANGED lastError
  /\ UNCHANGED <<device, stopScan>>
  /\ UNCHANGED <<radioVars, scanVars, uiVars>>

(* ----------------------------- Disconnect ----------------------------- *)
(* Mutant of Disconnect: a failing device.Disconnect() is returned and    *)
(* recorded but the state becomes Disconnected.                           *)
DisconnectHidesFailure(t) ==
  /\ call[t].pc = "idle"
  /\ \/ /\ state = Connected
        /\ lastError' = ErrDisconnect
        /\ state' = Disconnected
        /\ Return(t, [IdleFrame EXCEPT !.op = "Disconnect"], ErrDisconnect)
        /\ UNCHANGED <<links, deviceName>>
     \/ /\ state = Connected
        /\ links' = links \ {device}
        /\ state' = Disconnected
        /\ deviceName' = ""
        /\ Return(t, [IdleFrame EXCEPT !.op = "Disconnect"], Nil)
        /\ UNCHANGED lastError
     \/ /\ state # Connected
        /\ state' = Disconnected
        /\ deviceName' = ""
        /\ Return(t, [IdleFrame EXCEPT !.op = "Disconnect"], Nil)
        /\ UNCHANGED <<links, lastError>>
  /\ UNCHANGED <<device, char, stopScan>>
  /\ UNCHANGED <<scanVars, uiVars>>

(* Lines 316-328.  device.Disconnect() either fails or closes the link.   *)
Disconnect(t) ==
  /\ call[t].pc = "idle"
  /\ \/ /\ state = Connected
        /\ lastError' = ErrDisconnect
        /\ state' = Error
        /\ Return(t, [IdleFrame EXCEPT !.op = "Disconnect"], ErrDisconnect)
        /\ UNCHANGED <<links, deviceName>>
     \/ /\ state = Connected
        /\ links' = links \ {device}
        /\ state' = Disconnected
        /\ deviceName' = ""
        /\ Return(t, [IdleFrame EXCEPT !.op = "Disconnect"], Nil)
        /\ UNCHANGED lastError
     \/ /\ state # Connected
        /\ state' = Disconnected
        /\ deviceName' = ""
        /\ Return(t, [IdleFrame EXCEPT !.op = "Disconnect"], Nil)
        /\ UNCHANGED <<links, lastError>>
  /\ UNCHANGED <<device, char, stopScan>>
  /\ UNCHANGED <<scanVars, uiVars>>

(* ---------------------------- SendCommand ----------------------------- *)
(* Mutant of SendCommandCheck: the check refuses only a Disconnected      *)
(* client (c.state == Disconnected instead of c.state != Connected).      *)
SendCommandCheckOnlyDisconnected(t) ==
  /\ call[t].pc = "check"
  /\ IF state = Disconnected
       THEN Return(t, call[t], ErrNotConnected)
       ELSE Step(t, [call[t] EXCEPT !.pc = "write"])
  /\ UNCHANGED <<clientVars, radioVars, scanVars, uiVars>>

(* Line 357-359: the state check that opens SendCommand.  A failed check  *)
(* returns the not-connected error, which also ends a sequence (line 396).*)
SendCommandCheck(t) ==
  /\ call[t].pc = "check"
  /\ IF state # Connected
       THEN Return(t, call[t], ErrNotConnected)
       ELSE Step(t, [call[t] EXCEPT !.pc = "write"])
  /\ UNCHANGED <<clientVars, radioVars, scanVars, uiVars>>

(* Mutant of SendCommandWrite: the loop ignores the error of a failed     *)
(* write and goes on with the next command.                               *)
SendCommandWriteIgnoringError(t) ==
  /\ call[t].pc = "write"
  /\ LET cmd == call[t].cmds[call[t].idx]
         wrote == [call[t] EXCEPT !.sent = Append(@, cmd.Code), !.cut = FALSE]
         next(f) == IF call[t].idx < Len(call[t].cmds)
                      THEN [f EXCEPT !.pc = "check", !.idx = @ + 1]
                      ELSE Returned(f, Nil)
     IN \/ /\ lastError' = ErrSend(cmd)
           /\ Step(t, next(call[t]))
        \/ /\ call' = [u \in Tasks |->
                        IF u = t THEN next(wrote) ELSE Overtaken(call[u])]
           /\ UNCHANGED lastError
  /\ UNCHANGED <<state, deviceName, device, char, stopScan>>
  /\ UNCHANGED <<radioVars, scanVars, uiVars>>

(* Lines 361-367 and the rest of the loop body of SendCommandSequence     *)
(* (lines 395-402): WriteWithoutResponse either fails, which records and  *)
(* returns the error, or puts the code on the characteristic; then the    *)
(* loop moves on to the next command or returns nil after the last one.   *)
SendCommandWrite(t) ==
  /\ call[t].pc = "write"
  /\ LET cmd == call[t].cmds[call[t].idx]
         wrote == [call[t] EXCEPT !.sent = Append(@, cmd.Code), !.cut = FALSE]
     IN \/ /\ lastError' = ErrSend(cmd)
           /\ Return(t, call[t], ErrSend(cmd))
        \/ /\ call' = [u \in Tasks |->
                        IF u = t
                          THEN IF call[t].idx < Len(call[t].cmds)
                                 THEN [wrote EXCEPT !.pc = "check", !.idx = @ + 1]
                                 ELSE Returned(wrote, Nil)
                          ELSE Overtaken(call[u])]
           /\ UNCHANGED lastError
  /\ UNCHANGED <<state, deviceName, device, char, stopScan>>
  /\ UNCHANGED <<radioVars, scanVars, uiVars>>

(* SendCommand(cmd): one command, no loop around it. *)
SendCommand(t, cmd) ==
  /\ call[t].pc = "idle"
  /\ Step(t, [IdleFrame EXCEPT !.pc = "check", !.op = "SendCommand",
                               !.cmds = <<cmd>>, !.idx = 1])
  /\ UNCHANGED <<clientVars, radioVars, scanVars, uiVars>>

(* The error Model.sendCommand returns for a key the registry lacks. *)
ErrUnknownCommand(command) == <<"unknown command", command>>

(* Go's two-valued map index Commands[command]: the entry and true, or    *)
(* the zero SonyCommand and false.                                        *)
Lookup(command) ==
  IF command \in DOMAIN Commands
    THEN <<Commands[command], TRUE>>
    ELSE <<SonyCommand("", <<>>), FALSE>>

(* Mutant of sendCommand: the exists flag is not looked at. *)
sendCommandUnchecked(t, command) ==
  /\ call[t].pc = "idle"
  /\ Step(t, [IdleFrame EXCEPT !.pc = "check", !.op = "SendCommand",
                               !.cmds = <<Lookup(command)[1]>>, !.idx = 1])
  /\ UNCHANGED <<clientVars, radioVars, scanVars, uiVars>>

(* Model.sendCommand (the TUI): look the key up; an unknown key returns   *)
(* the unknown-command error without calling the Client, a known one      *)
(* calls SendCommand with the registry's entry.                           *)
sendCommand(t, command) ==
  /\ call[t].pc = "idle"
  /\ LET cmd == Lookup(command)[1]
         exists == Lookup(command)[2]
     IN IF ~exists
          THEN Return(t, [IdleFrame EXCEPT !.op = "sendCommand"],
                      ErrUnknownCommand(command))
          ELSE Step(t, [IdleFrame EXCEPT !.pc = "check", !.op = "SendCommand",
                                         !.cmds = <<cmd>>, !.idx = 1])
  /\ UNCHANGED <<clientVars, radioVars, scanVars, uiVars>>

(* SendCommandSequence(commands, delay): an empty list returns nil at     *)
(* once; otherwise the loop starts with the first command.  The delay is  *)
(* a sleep between a write and the next check, where other tasks run.     *)
SendCommandSequence(t, commands) ==
  /\ call[t].pc = "idle"
  /\ IF commands = <<>>
       THEN Return(t, [IdleFrame EXCEPT !.op = "SendCommandSequence"], Nil)
       ELSE Step(t, [IdleFrame EXCEPT !.pc = "check", !.op = "SendCommandSequence",
                                      !.cmds = commands, !.idx = 1])
  /\ UNCHANGED <<clientVars, radioVars, scanVars, uiVars>>

(* TakePhoto: SendCommandSequence(TakePhotoSequence(), 50ms). *)
TakePhoto(t) ==
  /\ call[t].pc = "idle"
  /\ Step(t, [IdleFrame EXCEPT !.pc = "check", !.op = "TakePhoto",
                               !.cmds = TakePhotoSequence, !.idx = 1])
  /\ UNCHANGED <<clientVars, radioVars, scanVars, uiVars>>

(* --------------------------- ScanForDevices --------------------------- *)
(* Lines 165-213: mark Scanning, clear the error, start the goroutine and *)
(* return nil.                                                            *)
ScanForDevices(t) ==
  /\ call[t].pc = "idle"
  /\ \E i \in ScanSlots :
       /\ scanPc[i] = "none"
       /\ scanPc' = [scanPc EXCEPT ![i] = "select"]
       /\ scanStopped' = [scanStopped EXCEPT ![i] = FALSE]
  /\ state' = Scanning
  /\ lastError' = Nil
  /\ Return(t, [IdleFrame EXCEPT !.op = "ScanForDevices"], Nil)
  /\ UNCHANGED <<deviceName, device, char, stopScan>>
  /\ UNCHANGED <<radioVars, ctxDone, deviceChan, scanPending, uiVars>>

(* ScanForDevices called while the goroutines of ScanSlots are running:   *)
(* the same assignments, and one more goroutine.                          *)
ScanForDevicesAgain(t) ==
  /\ call[t].pc = "idle"
  /\ \A i \in ScanSlots : scanPc[i] # "none"
  /\ \E i \in SpareScanSlots :
       /\ scanPc[i] = "none"
       /\ scanPc' = [scanPc EXCEPT ![i] = "select"]
       /\ scanStopped' = [scanStopped EXCEPT ![i] = FALSE]
  /\ state' = Scanning
  /\ lastError' = Nil
  /\ Return(t, [IdleFrame EXCEPT !.op = "ScanForDevices"], Nil)
  /\ UNCHANGED <<deviceName, device, char, stopScan>>
  /\ UNCHANGED <<radioVars, ctxDone, deviceChan, scanPending, uiVars>>

(* The goroutine of slot i ends. *)
ScanExit(i) ==
  /\ scanPc' = [scanPc EXCEPT ![i] = "none"]
  /\ scanStopped' = [scanStopped EXCEPT ![i] = FALSE]
  /\ call' = [t \in Tasks |-> [call[t] EXCEPT !.scans = @ \ {i}]]

(* Lines 170-179: the select at the top of the goroutine's loop.  A ready *)
(* stop value is received (and so removed from the channel), a cancelled  *)
(* context ends the goroutine, otherwise adapter.Scan is called.          *)
ScanLoop(i) ==
  /\ scanPc[i] = "select"
  /\ \/ /\ stopScan > 0
        /\ stopScan' = stopScan - 1
        /\ ScanExit(i)
     \/ /\ ctxDone
        /\ ScanExit(i)
        /\ UNCHANGED stopScan
     \/ /\ stopScan = 0
        /\ ~ctxDone
        /\ scanPc' = [scanPc EXCEPT ![i] = "scan"]
        /\ UNCHANGED <<stopScan, scanStopped, taskVars>>
  /\ UNCHANGED <<state, lastError, deviceName, device, char>>
  /\ UNCHANGED <<radioVars, ctxDone, deviceChan, scanPending, uiVars>>

(* Mutant of ScanCallback: the unnamed-device test is missing. *)
ScanCallbackNoNameTest(i, result) ==
  /\ scanPc[i] = "scan"
  /\ \/ /\ stopScan > 0
        /\ stopScan' = stopScan - 1
        /\ UNCHANGED <<deviceChan, scanPc, scanPending>>
     \/ /\ ctxDone
        /\ UNCHANGED <<stopScan, deviceChan, scanPc, scanPending>>
     \/ /\ stopScan = 0
        /\ ~ctxDone
        /\ UNCHANGED stopScan
        /\ IF result.LocalName = <<>> \/ containsSonyIdentifier(result.LocalName)
             THEN IF Len(deviceChan) < QueueCap
                    THEN /\ deviceChan' = Append(deviceChan, DeviceInfo(result))
                         /\ UNCHANGED <<scanPc, scanPending>>
                    ELSE /\ scanPc' = [scanPc EXCEPT ![i] = "send"]
                         /\ scanPending' = [scanPending EXCEPT ![i] = DeviceInfo(result)]
                         /\ UNCHANGED deviceChan
             ELSE UNCHANGED <<deviceChan, scanPc, scanPending>>
  /\ UNCHANGED <<state, lastError, deviceName, device, char>>
  /\ UNCHANGED <<radioVars, ctxDone, scanStopped, uiVars, taskVars>>

(* Lines 179-202: the radio reports one advertisement to the callback.    *)
(* The send on deviceChan blocks while the channel is full.               *)
ScanCallback(i, result) ==
  /\ scanPc[i] = "scan"
  /\ \/ /\ stopScan > 0
        /\ stopScan' = stopScan - 1
        /\ UNCHANGED <<deviceChan, scanPc, scanPending>>
     \/ /\ ctxDone
        /\ UNCHANGED <<stopScan, deviceChan, scanPc, scanPending>>
     \/ /\ stopScan = 0
        /\ ~ctxDone
        /\ UNCHANGED stopScan
        /\ IF result.LocalName # <<>> /\ containsSonyIdentifier(result.LocalName)
             THEN IF Len(deviceChan) < QueueCap
                    THEN /\ deviceChan' = Append(deviceChan, DeviceInfo(result))
                         /\ UNCHANGED <<scanPc, scanPending>>
                    ELSE /\ scanPc' = [scanPc EXCEPT ![i] = "send"]
                         /\ scanPending' = [scanPending EXCEPT ![i] = DeviceInfo(result)]
                         /\ UNCHANGED deviceChan
             ELSE UNCHANGED <<deviceChan, scanPc, scanPending>>
  /\ UNCHANGED <<state, lastError, deviceName, device, char>>
  /\ UNCHANGED <<radioVars, ctxDone, scanStopped, uiVars, taskVars>>

(* Line 194, continued: a callback blocked on the full channel completes  *)
(* its send once the channel has room.                                    *)
ScanCallbackSend(i) ==
  /\ scanPc[i] = "send"
  /\ Len(deviceChan) < QueueCap
  /\ deviceChan' = Append(deviceChan, scanPending[i])
  /\ scanPending' = [scanPending EXCEPT ![i] = 0]
  /\ scanPc' = [scanPc EXCEPT ![i] = "scan"]
  /\ UNCHANGED <<clientVars, radioVars, ctxDone, scanStopped, uiVars, taskVars>>

(* Mutant of ScanReturn: a scan error ends the goroutine without being    *)
(* recorded.                                                              *)
ScanReturnDropsError(i) ==
  /\ scanPc[i] = "scan"
  /\ \/ /\ ScanExit(i)
        /\ UNCHANGED <<state, lastError>>
     \/ /\ scanPc' = [scanPc EXCEPT ![i] = "select"]
        /\ UNCHANGED <<state, lastError, scanStopped, taskVars>>
  /\ UNCHANGED <<deviceName, device, char, stopScan>>
  /\ UNCHANGED <<radioVars, ctxDone, deviceChan, scanPending, uiVars>>

(* Lines 203-210: adapter.Scan returns.  An error is recorded, the state  *)
(* becomes Error and the goroutine ends; a nil return (after              *)
(* adapter.StopScan, or when the platform yields) loops back.             *)
ScanReturn(i) ==
  /\ scanPc[i] = "scan"
  /\ \/ /\ lastError' = ErrScan
        /\ state' = Error
        /\ ScanExit(i)
     \/ /\ scanPc' = [scanPc EXCEPT ![i] = "select"]
        /\ UNCHANGED <<state, lastError, scanStopped, taskVars>>
  /\ UNCHANGED <<deviceName, device, char, stopScan>>
  /\ UNCHANGED <<radioVars, ctxDone, deviceChan, scanPending, uiVars>>

(* ------------------------------ StopScan ------------------------------ *)
(* Lines 220-223: the non-blocking send on stopScan; the value is dropped *)
(* when the channel already holds one.                                    *)
StopScan(t) ==
  /\ call[t].pc = "idle"
  /\ stopScan' = IF stopScan < 1 THEN stopScan + 1 ELSE stopScan
  /\ Step(t, [IdleFrame EXCEPT !.pc = "stop", !.op = "StopScan",
                               !.scans = {i \in AllScanSlots : scanPc[i] # "none"}])
  /\ UNCHANGED <<state, lastError, deviceName, device, char>>
  /\ UNCHANGED <<radioVars, scanVars, uiVars>>

(* Mutant of StopScanRadio: the state becomes Disconnected whatever it    *)
(* was.                                                                   *)
StopScanRadioAlwaysDisconnects(t) ==
  /\ call[t].pc = "stop"
  /\ state' = Disconnected
  /\ scanStopped' = [i \in AllScanSlots |-> scanStopped[i] \/ i \in call[t].scans]
  /\ Return(t, call[t], Nil)
  /\ UNCHANGED <<lastError, deviceName, device, char, stopScan>>
  /\ UNCHANGED <<radioVars, ctxDone, deviceChan, scanPc, scanPending, uiVars>>

(* Lines 224-228: adapter.StopScan (its result is not looked at), then    *)
(* Scanning becomes Disconnected.  StopScan returns nothing.  A running   *)
(* adapter.Scan returns nil some time after (ScanReturn).                 *)
StopScanRadio(t) ==
  /\ call[t].pc = "stop"
  /\ state' = IF state = Scanning THEN Disconnected ELSE state
  /\ scanStopped' = [i \in AllScanSlots |-> scanStopped[i] \/ i \in call[t].scans]
  /\ Return(t, call[t], Nil)
  /\ UNCHANGED <<lastError, deviceName, device, char, stopScan>>
  /\ UNCHANGED <<radioVars, ctxDone, deviceChan, scanPc, scanPending, uiVars>>

(* ---------------------------- environment ----------------------------- *)
(* The owner of the context cancels it. *)
Cancel ==
  /\ ~ctxDone
  /\ ctxDone' = TRUE
  /\ UNCHANGED <<clientVars, radioVars, deviceChan, scanPc, scanPending,
                 scanStopped, uiVars, taskVars>>

(* ------------------------------- TUI ---------------------------------- *)
(* Mutant of addDevice: a record is compared as a whole, not by its       *)
(* address string.                                                        *)
addDeviceWholeRecord(ds, d) ==
  IF \E k \in 1..Len(ds) : ds[k] = d THEN ds ELSE Append(ds, d)

(* Model.addDevice: a device whose address string is already in the list  *)
(* is dropped, any other is appended.                                     *)
addDevice(ds, d) ==
  IF \E k \in 1..Len(ds) : ds[k].AddressStr = d.AddressStr
    THEN ds
    ELSE Append(ds, d)

(* checkForDevicesCmd receives one DeviceInfo from deviceChan and Update  *)
(* handles the deviceFoundMsg it returns by adding the device.            *)
Receive ==
  /\ deviceChan # <<>>
  /\ deviceChan' = Tail(deviceChan)
  /\ devices' = addDevice(devices, Head(deviceChan))
  /\ UNCHANGED <<clientVars, radioVars, ctxDone, scanPc, scanPending,
                 scanStopped, scanning, mode, buttonStates, taskVars>>

(* Update on scanStartMsg: a new scan session starts with an empty list.  *)
ScanStart ==
  /\ devices # <<>>
  /\ devices' = <<>>
  /\ UNCHANGED <<clientVars, radioVars, scanVars, scanning, mode,
                 buttonStates, taskVars>>

(* A Go map[string]bool as a function whose domain is the keys assigned   *)
(* so far: an index expression yields false for a key never assigned, an  *)
(* assignment adds the key when it is new.                                *)
MapGet(m, k) == IF k \in DOMAIN m THEN m[k] ELSE FALSE
MapSet(m, k, v) == [x \in DOMAIN m \cup {k} |-> IF x = k THEN v ELSE m[x]]

(* handleControlKeys, lines 234-271: the keys that send, the button each  *)
(* marks active and the registry key each passes to sendCommand (the      *)
(* space bar calls takePhoto instead).                                    *)
SendingKeys == {"f", "s", "z", "Z", "a", "r", "c", " "}
Button(key) ==
  CASE key = "f" -> "focus"
    [] key = "s" -> "shutter"
    [] key = "z" -> "zoom_out"
    [] key = "Z" -> "zoom_in"
    [] key = "a" -> "autofocus"
    [] key = "r" -> "record"
    [] key = "c" -> "custom"
    [] key = " " -> "shutter"
KeyCommand(key) ==
  CASE key = "f" -> "focus_down"
    [] key = "s" -> "shutter_full_down"
    [] key = "z" -> "zoom_out_down"
    [] key = "Z" -> "zoom_in_down"
    [] key = "a" -> "autofocus_down"
    [] key = "r" -> "record_toggle"
    [] key = "c" -> "c1_down"

(* Advertisements reported while the TUI scans: a camera and a headphone. *)
NearbyAdvertisements == {r \in Advertisements : r.RSSI \in {-45, -70}}

(* Keys pressed in control mode. *)
ControlKeys == {"f", " "}

(* Tab in the device list while not scanning (lines 182-185), Update on   *)
(* the scanStartMsg it returns (lines 103-108) and the performScan        *)
(* command started there (lines 324-332): the flag is set, the list       *)
(* emptied, and ScanForDevices marks Scanning, clears the error and       *)
(* starts the goroutine.  ScanForDevices returns nil, so performScan      *)
(* returns no message.                                                    *)
scanStartMsg ==
  /\ mode = ModeDeviceList
  /\ ~scanning
  /\ scanning' = TRUE
  /\ devices' = <<>>
  /\ \E i \in ScanSlots :
       /\ scanPc[i] = "none"
       /\ scanPc' = [scanPc EXCEPT ![i] = "select"]
       /\ scanStopped' = [scanStopped EXCEPT ![i] = FALSE]
  /\ state' = Scanning
  /\ lastError' = Nil
  /\ UNCHANGED <<deviceName, device, char, stopScan>>
  /\ UNCHANGED <<radioVars, ctxDone, deviceChan, scanPending, mode,
                 buttonStates, taskVars>>

(* Esc in the device list while scanning (lines 169-175, 207-212):        *)
(* StopScan is called on the event loop, and Update on the                *)
(* scanCompleteMsg the handler returns clears the flag (lines 117-119).   *)
handleDeviceListEsc ==
  /\ mode = ModeDeviceList
  /\ scanning
  /\ stopScan' = IF stopScan < 1 THEN stopScan + 1 ELSE stopScan
  /\ state' = IF state = Scanning THEN Disconnected ELSE state
  /\ scanStopped' = [i \in AllScanSlots |-> scanStopped[i] \/ scanPc[i] # "none"]
  /\ scanning' = FALSE
  /\ UNCHANGED <<lastError, deviceName, device, char>>
  /\ UNCHANGED <<radioVars, ctxDone, deviceChan, scanPc, scanPending,
                 devices, mode, buttonStates, taskVars>>

(* Enter in the device list on the k-th device (lines 197-205): StopScan  *)
(* is called when the flag is set, then the connect command calls         *)
(* Connect with the device's address in task t.  The flag is not written. *)
handleDeviceListEnter(t, k) ==
  /\ mode = ModeDeviceList
  /\ k \in 1..Len(devices)
  /\ call[t] = IdleFrame
  /\ IF scanning
       THEN /\ stopScan' = IF stopScan < 1 THEN stopScan + 1 ELSE stopScan
            /\ scanStopped' =
                 [i \in AllScanSlots |-> scanStopped[i] \/ scanPc[i] # "none"]
       ELSE UNCHANGED <<stopScan, scanStopped>>
  /\ Step(t, [IdleFrame EXCEPT !.pc = "c_link", !.op = "Connect",
                               !.arg = devices[k].Address])
  /\ state' = Connecting
  /\ lastError' = Nil
  /\ UNCHANGED <<deviceName, device, char>>
  /\ UNCHANGED <<radioVars, ctxDone, deviceChan, scanPc, scanPending, uiVars>>

(* Update on the connectionMsg of task t's connect command (lines         *)
(* 129-139): an error is logged, a success switches to control mode.      *)
connectionMsg(t) ==
  /\ call[t].pc = "idle"
  /\ call[t].op = "Connect"
  /\ mode' = IF call[t].ret = Nil THEN ModeControl ELSE mode
  /\ Step(t, IdleFrame)
  /\ UNCHANGED <<clientVars, radioVars, scanVars, devices, scanning, buttonStates>>

(* A sending key in control mode (lines 234-271): the key's button is     *)
(* marked active and the command runs in task t, sendCommand for a        *)
(* letter (lines 344-360), takePhoto for the space bar (lines 362-370).   *)
handleControlKeys(t, key) ==
  /\ mode = ModeControl
  /\ call[t] = IdleFrame
  /\ buttonStates' = MapSet(buttonStates, Button(key), TRUE)
  /\ IF key = " "
       THEN Step(t, [IdleFrame EXCEPT !.pc = "check", !.op = "TakePhoto",
                                      !.cmds = TakePhotoSequence, !.idx = 1])
       ELSE LET cmd == Lookup(KeyCommand(key))[1]
                exists == Lookup(KeyCommand(key))[2]
            IN IF ~exists
                 THEN Return(t, [IdleFrame EXCEPT !.op = "sendCommand"],
                             ErrUnknownCommand(KeyCommand(key)))
                 ELSE Step(t, [IdleFrame EXCEPT !.pc = "check", !.op = "SendCommand",
                                                !.cmds = <<cmd>>, !.idx = 1])
  /\ UNCHANGED <<clientVars, radioVars, scanVars, devices, scanning, mode>>

(* The command field of the commandSentMsg a finished command returns:    *)
(* the key for an unknown key (line 349), cmd.Name after SendCommand      *)
(* (line 356), "Take Photo" after TakePhoto (line 366).                   *)
MsgCommand(f) ==
  CASE f.op = "sendCommand" -> f.ret[2]
    [] f.op = "SendCommand" -> f.cmds[1].Name
    [] f.op = "TakePhoto" -> "Take Photo"

(* Update on the commandSentMsg of task t's command (lines 141-148): the  *)
(* map entry under the message's command field is set to false.           *)
commandSentMsg(t) ==
  /\ call[t].pc = "idle"
  /\ call[t].op \in {"sendCommand", "SendCommand", "TakePhoto"}
  /\ buttonStates' = MapSet(buttonStates, MsgCommand(call[t]), FALSE)
  /\ Step(t, IdleFrame)
  /\ UNCHANGED <<clientVars, radioVars, scanVars, devices, scanning, mode>>

(* Esc or backspace in control mode (lines 226-231): Disconnect on the    *)
(* event loop, back to the device list, the list emptied.                 *)
handleControlEsc ==
  /\ mode = ModeControl
  /\ \/ /\ state = Connected
        /\ lastError' = ErrDisconnect
        /\ state' = Error
        /\ UNCHANGED <<links, deviceName>>
     \/ /\ state = Connected
        /\ links' = links \ {device}
        /\ state' = Disconnected
        /\ deviceName' = ""
        /\ UNCHANGED lastError
     \/ /\ state # Connected
        /\ state' = Disconnected
        /\ deviceName' = ""
        /\ UNCHANGED <<links, lastError>>
  /\ mode' = ModeDeviceList
  /\ devices' = <<>>
  /\ UNCHANGED <<device, char, stopScan>>
  /\ UNCHANGED <<scanVars, scanning, buttonStates, taskVars>>

(* --------------------------- specification ---------------------------- *)
(* Connect's three steps and Disconnect. *)
ConnectionOps ==
  \/ \E t \in Tasks : \E a \in Addresses : Connect(t, a)
  \/ \E t \in Tasks : ConnectLink(t)
  \/ \E t \in Tasks : ConnectServices(t)
  \/ \E t \in Tasks : ConnectChars(t)
  \/ \E t \in Tasks : Disconnect(t)

(* SendCommand and the two steps every send goes through. *)
SendOps ==
  \/ \E t \in Tasks : \E k \in SendKeys : SendCommand(t, Commands[k])
  \/ \E t \in Tasks : SendCommandCheck(t)
  \/ \E t \in Tasks : SendCommandWrite(t)

(* The two multi-command operations. *)
SequenceOps ==
  \/ \E t \in Tasks : \E cs \in CommandLists : SendCommandSequence(t, cs)
  \/ \E t \in Tasks : TakePhoto(t)

(* Starting and stopping a scan, and the scan goroutine's control flow. *)
ScanOps ==
  \/ \E t \in Tasks : ScanForDevices(t)
  \/ \E t \in Tasks : StopScan(t)
  \/ \E t \in Tasks : StopScanRadio(t)
  \/ \E i \in ScanSlots : ScanLoop(i)
  \/ \E i \in ScanSlots : ScanReturn(i)
  \/ Cancel

(* Advertisements reaching the callback and the channel's consumer. *)
AdvertisementOps ==
  \/ \E i \in ScanSlots : \E r \in Advertisements : ScanCallback(i, r)
  \/ \E i \in ScanSlots : ScanCallbackSend(i)
  \/ Receive
  \/ ScanStart

Next == ConnectionOps \/ SendOps \/ SequenceOps \/ ScanOps \/ AdvertisementOps

(* The whole client. *)
Spec == Init /\ [][Next]_vars

(* The connection state machine: every method that reads or writes the    *)
(* Client's state, error and handles, called from two tasks, with the     *)
(* scan goroutine running beside them.                                    *)
NextClient == ConnectionOps \/ SendOps \/ ScanOps
SpecClient == Init /\ [][NextClient]_vars

(* Device discovery: scan sessions started and stopped from two tasks,   *)
(* the scan goroutine, the advertisements the radio reports and the TUI's *)
(* device list.                                                           *)
NextScan == ScanOps \/ AdvertisementOps
SpecScan == Init /\ [][NextScan]_vars

(* Scan sessions that overlap: ScanForDevices is also called while an     *)
(* earlier goroutine is running.                                          *)
NextSessions ==
  \/ \E t \in Tasks : ScanForDevices(t)
  \/ \E t \in Tasks : ScanForDevicesAgain(t)
  \/ \E t \in Tasks : StopScan(t)
  \/ \E t \in Tasks : StopScanRadio(t)
  \/ \E i \in AllScanSlots : ScanLoop(i)
  \/ \E i \in AllScanSlots : ScanReturn(i)
  \/ \E i \in AllScanSlots : \E r \in Advertisements : ScanCallback(i, r)
  \/ \E i \in AllScanSlots : ScanCallbackSend(i)
  \/ Receive
SpecSessions == Init /\ [][NextSessions]_vars

(* The identifier filter at work: a scan session whose callback is given  *)
(* every name of FilterNames.                                             *)
NextFilter ==
  \/ \E t \in Tasks : ScanForDevices(t)
  \/ \E i \in ScanSlots : ScanLoop(i)
  \/ \E i \in ScanSlots : ScanReturn(i)
  \/ \E i \in ScanSlots : \E r \in FilterAdvertisements : ScanCallback(i, r)
SpecFilter == Init /\ [][NextFilter]_vars

(* The TUI's control keys: sendCommand from two tasks while the           *)
(* connection comes and goes.                                             *)
NextKeys ==
  \/ ConnectionOps
  \/ \E t \in Tasks : \E k \in KeyInputs : sendCommand(t, k)
  \/ \E t \in Tasks : SendCommandCheck(t)
  \/ \E t \in Tasks : SendCommandWrite(t)
SpecKeys == Init /\ [][NextKeys]_vars

(* Command transmission: single commands, sequences and TakePhoto from    *)
(* two tasks while the connection comes and goes.                         *)
NextSend == ConnectionOps \/ SendOps \/ SequenceOps
SpecSend == Init /\ [][NextSend]_vars

(* The TUI's device list: scan sessions started with Tab and stopped with *)
(* Esc or Enter, the scan goroutine and the advertisements it is given,   *)
(* the connection made with Enter, and the way back from control mode.    *)
NextDeviceList ==
  \/ scanStartMsg
  \/ handleDeviceListEsc
  \/ \E t \in Tasks : \E k \in 1..Len(devices) : handleDeviceListEnter(t, k)
  \/ \E t \in Tasks : connectionMsg(t)
  \/ handleControlEsc
  \/ \E t \in Tasks : ConnectLink(t)
  \/ \E t \in Tasks : ConnectServices(t)
  \/ \E t \in Tasks : ConnectChars(t)
  \/ \E i \in ScanSlots : ScanLoop(i)
  \/ \E i \in ScanSlots : ScanReturn(i)
  \/ \E i \in ScanSlots : \E r \in NearbyAdvertisements : ScanCallback(i, r)
  \/ \E i \in ScanSlots : ScanCallbackSend(i)
  \/ scanning /\ Receive
SpecDeviceList == Init /\ [][NextDeviceList]_vars

(* The TUI's control mode: a camera is found and connected to, then the   *)
(* control keys are pressed and their commands run in two goroutines.     *)
NextControl ==
  \/ scanStartMsg
  \/ \E i \in ScanSlots : ScanLoop(i)
  \/ \E i \in ScanSlots : \E r \in NearbyAdvertisements : ScanCallback(i, r)
  \/ scanning /\ Receive
  \/ \E t \in Tasks : \E k \in 1..Len(devices) : handleDeviceListEnter(t, k)
  \/ \E t \in Tasks : ConnectLink(t)
  \/ \E t \in Tasks : ConnectServices(t)
  \/ \E t \in Tasks : ConnectChars(t)
  \/ \E t \in Tasks : connectionMsg(t)
  \/ \E t \in Tasks : \E key \in ControlKeys : handleControlKeys(t, key)
  \/ \E t \in Tasks : SendCommandCheck(t)
  \/ \E t \in Tasks : SendCommandWrite(t)
  \/ \E t \in Tasks : commandSentMsg(t)
SpecControl == Init /\ [][NextControl]_vars

(* ------------------------------ claims -------------------------------- *)
(* The task's step leaves the state check of a send. *)
ChecksState(t) == call[t].pc = "check" /\ call'[t] # call[t]

(* The task's step puts a byte-code on the characteristic. *)
Writes(t) ==
  /\ call[t].pc = "write"
  /\ Len(call'[t].sent) = Len(call[t].sent) + 1

(* The task's step is a WriteWithoutResponse that fails. *)
WriteFails(t) ==
  /\ call[t].pc = "write"
  /\ call'[t].pc = "idle"
  /\ call'[t].sent = call[t].sent

(* C1: SendCommand on a client whose state is not Connected returns the   *)
(* not-connected error, writes nothing and leaves the state as it was.    *)
C1_NotConnectedFails ==
  [][\A t \in Tasks :
       (ChecksState(t) /\ state # Connected) =>
         /\ call'[t].pc = "idle"
         /\ call'[t].ret = ErrNotConnected
         /\ call'[t].sent = call[t].sent
         /\ state' = state]_vars

(* A SendCommand has returned the not-connected error in state Error. *)
C1_Witness ==
  \E t \in Tasks :
    /\ call[t].op = "SendCommand"
    /\ call[t].pc = "idle"
    /\ call[t].ret = ErrNotConnected
    /\ call[t].sent = <<>>
    /\ state = Error

(* C2: every write to the command characteristic happens while the state  *)
(* is exactly Connected, whatever the other tasks do.                     *)
C2_WritesOnlyWhenConnected ==
  [][\A t \in Tasks : Writes(t) => state = Connected]_vars

(* C3: a failing write in state Connected moves the state to Error and    *)
(* returns the write error.                                               *)
C3_WriteFailureSetsError ==
  [][\A t \in Tasks :
       (WriteFails(t) /\ state = Connected) =>
         /\ state' = Error
         /\ call'[t].ret = ErrSend(call[t].cmds[call[t].idx])]_vars

(* Byte-codes of a command list, in list order. *)
Codes(commands) == [i \in 1..Len(commands) |-> commands[i].Code]

(* s is an initial segment of t. *)
IsPrefix(s, t) == Len(s) <= Len(t) /\ SubSeq(t, 1, Len(s)) = s

SequenceOpNames == {"SendCommandSequence", "TakePhoto"}

(* C4: what a SendCommandSequence call has written is always an initial   *)
(* segment of its list's byte-codes, in list order: the commands before   *)
(* the one it is working on while it runs, the whole list once it has     *)
(* returned nil, and the commands before the failing one once it has      *)
(* returned that command's error.                                         *)
C4_SequenceWritesPrefix ==
  \A t \in Tasks :
    LET f == call[t] IN
      f.op \in SequenceOpNames =>
        /\ IsPrefix(f.sent, Codes(f.cmds))
        /\ f.pc # "idle" => Len(f.sent) = f.idx - 1
        /\ (f.pc = "idle" /\ f.ret = Nil) => f.sent = Codes(f.cmds)
        /\ (f.pc = "idle" /\ f.ret # Nil) =>
             /\ Len(f.sent) < Len(f.cmds)
             /\ f.ret \in {ErrNotConnected, ErrSend(f.cmds[Len(f.sent) + 1])}

(* A two-command sequence has returned the write error of its second      *)
(* command after writing the first.                                       *)
C4_Witness ==
  \E t \in Tasks :
    /\ call[t].op = "SendCommandSequence"
    /\ call[t].pc = "idle"
    /\ Len(call[t].cmds) = 2
    /\ call[t].sent = << <<1, 7>> >>
    /\ call[t].ret = ErrSend(Commands["shutter_full_down"])

(* C5: no task writes a byte-code between two writes of another task's    *)
(* running sequence.                                                      *)
C5_NoInterleavedWrite ==
  [][\A t \in Tasks : ~(call[t].cut /\ Writes(t))]_vars

(* C6: TakePhotoSequence is focus_down, shutter_full_down,                *)
(* shutter_full_up, focus_up; a TakePhoto that returned nil has written   *)
(* 01 07, 01 09, 01 08, 01 06 in that order, and one that did not return  *)
(* nil met a state other than Connected or a failing write.               *)
C6_TakePhotoBytes ==
  /\ TakePhotoSequence =
       <<Commands["focus_down"], Commands["shutter_full_down"],
         Commands["shutter_full_up"], Commands["focus_up"]>>
  /\ Codes(TakePhotoSequence) = << <<1, 7>>, <<1, 9>>, <<1, 8>>, <<1, 6>> >>
  /\ \A t \in Tasks :
       LET f == call[t] IN
         (f.op = "TakePhoto" /\ f.pc = "idle") =>
           IF f.ret = Nil
             THEN f.sent = << <<1, 7>>, <<1, 9>>, <<1, 8>>, <<1, 6>> >>
             ELSE f.ret \in {ErrNotConnected} \cup
                            {ErrSend(f.cmds[i]) : i \in 1..Len(f.cmds)}

(* A TakePhoto has returned nil after four writes. *)
C6_Witness ==
  \E t \in Tasks :
    /\ call[t].op = "TakePhoto"
    /\ call[t].pc = "idle"
    /\ call[t].ret = Nil
    /\ Len(call[t].sent) = 4

(* The task's step is a handshake step of Connect. *)
Handshakes(t) ==
  /\ call[t].pc \in {"c_link", "c_svc", "c_char"}
  /\ call'[t] # call[t]

(* The handshake step the frame performed last, as <<step, result>>. *)
LastStep(f) == f.steps[Len(f.steps)]

(* The task's step is a handshake step that fails. *)
HandshakeFails(t) == Handshakes(t) /\ LastStep(call'[t])[2] # "ok"

(* C7: a handshake step that fails makes Connect return an error, with    *)
(* the state Error and that error as the last error; zero services give   *)
(* the service-not-found error and zero characteristics the               *)
(* characteristic-not-found error.                                        *)
C7_HandshakeFailure ==
  [][\A t \in Tasks :
       HandshakeFails(t) =>
         /\ call'[t].pc = "idle"
         /\ call'[t].ret # Nil
         /\ state' = Error
         /\ lastError' = call'[t].ret
         /\ LastStep(call'[t]) = <<"svc", "zero">> => call'[t].ret = ErrServiceNotFound
         /\ LastStep(call'[t]) = <<"char", "zero">> => call'[t].ret = ErrCharNotFound]_vars

(* A Connect has returned service-not-found; the state is Error and the   *)
(* last error is the one returned.                                        *)
C7_Witness ==
  \E t \in Tasks :
    /\ call[t].op = "Connect"
    /\ call[t].pc = "idle"
    /\ call[t].ret = ErrServiceNotFound
    /\ state = Error
    /\ lastError = ErrServiceNotFound

(* The Client holds a live connection handle: a characteristic on a link  *)
(* that is open.                                                          *)
HandleLive == char # 0 /\ char \in links

(* C8: when a handshake fails, the link the call opened is closed again   *)
(* and the Client keeps no characteristic handle.                         *)
C8_NoHandleAfterFailedConnect ==
  [][\A t \in Tasks :
       HandshakeFails(t) => (call[t].dev \notin links' /\ char' = 0)]_vars

(* C9: the Client holds a live connection handle exactly when its state   *)
(* is Connected.                                                          *)
C9_HandleIffConnected == HandleLive <=> state = Connected

HandshakeOrder == <<"link", "svc", "char">>

(* C10: a Connect performs link, service and characteristic discovery at  *)
(* most once each and in that order, performs no step after one that      *)
(* failed, returns nil exactly when all three succeeded, and the state    *)
(* becomes Connected only in the step that completes such a handshake.    *)
C10_HandshakeSteps ==
  /\ [](\A t \in Tasks :
          LET f == call[t] IN
            f.op = "Connect" =>
              /\ Len(f.steps) <= 3
              /\ \A i \in 1..Len(f.steps) : f.steps[i][1] = HandshakeOrder[i]
              /\ \A i \in 1..(Len(f.steps) - 1) : f.steps[i][2] = "ok"
              /\ f.pc # "idle" => \A i \in 1..Len(f.steps) : f.steps[i][2] = "ok"
              /\ f.pc = "idle" =>
                   (f.ret = Nil <=>
                      f.steps = << <<"link", "ok">>, <<"svc", "ok">>, <<"char", "ok">> >>))
  /\ [][(state' = Connected /\ state # Connected) =>
          \E t \in Tasks :
            /\ Handshakes(t)
            /\ call'[t].steps = << <<"link", "ok">>, <<"svc", "ok">>, <<"char", "ok">> >>]_vars

(* A Connect has returned nil after its three steps and the state is      *)
(* Connected.                                                             *)
C10_Witness ==
  \E t \in Tasks :
    /\ call[t].op = "Connect"
    /\ call[t].pc = "idle"
    /\ call[t].ret = Nil
    /\ Len(call[t].steps) = 3
    /\ state = Connected

(* The transitions of the connection state machine, as <<from, to>>. *)
EnumeratedTransitions ==
  { <<Disconnected, Scanning>>, <<Scanning, Disconnected>>, <<Scanning, Error>>,
    <<Disconnected, Connecting>>, <<Connecting, Connected>>, <<Connecting, Error>>,
    <<Connected, Disconnected>>, <<Connected, Error>>,
    <<Error, Scanning>>, <<Error, Connecting>> }

(* C11: every change of the state is one of the enumerated transitions;  *)
(* in particular ScanForDevices never leaves Connected or Connecting and  *)
(* Connect never leaves Scanning or Connected.                            *)
C11_OnlyEnumeratedTransitions ==
  [][state' # state => <<state, state'>> \in EnumeratedTransitions]_vars

(* The task's step is the entry of Connect. *)
CallsConnect(t) == call[t].pc = "idle" /\ call'[t].pc = "c_link"

(* The step is a ScanForDevices call: a scan goroutine starts. *)
CallsScanForDevices == \E i \in ScanSlots : scanPc[i] = "none" /\ scanPc'[i] = "select"

(* C12: the state leaves Error only in the step of a new Connect or       *)
(* ScanForDevices call.                                                   *)
C12_ErrorUntilConnectOrScan ==
  [][(state = Error /\ state' # Error) =>
       (CallsScanForDevices \/ \E t \in Tasks : CallsConnect(t))]_vars

(* The task's step is the send on the stopScan channel of a StopScan. *)
SignalsStop(t) == call[t].pc = "idle" /\ call'[t].pc = "stop"

(* The task's step is the one StopScan returns in. *)
StopScanReturns(t) == call[t].pc = "stop" /\ call'[t].pc = "idle"

(* C13: StopScan never blocks and returns no error; the step it returns   *)
(* in turns Scanning into Disconnected and leaves any other state as it   *)
(* is, the stop channel never holds more than one value, and a StopScan   *)
(* that finds the channel full and the state not Scanning changes nothing *)
(* of the Client, so that a second call adds nothing to the first.        *)
C13_StopScanIdempotent ==
  /\ [](/\ stopScan <= 1
        /\ \A t \in Tasks :
             /\ call[t].pc = "idle" => ENABLED StopScan(t)
             /\ call[t].pc = "stop" => ENABLED StopScanRadio(t))
  /\ [][\A t \in Tasks :
          /\ SignalsStop(t) =>
               /\ stopScan' = 1
               /\ <<state, lastError, deviceName, device, char>>' =
                    <<state, lastError, deviceName, device, char>>
          /\ StopScanReturns(t) =>
               /\ call'[t].ret = Nil
               /\ state' = (IF state = Scanning THEN Disconnected ELSE state)
               /\ lastError' = lastError
          /\ ((SignalsStop(t) \/ StopScanReturns(t)) /\ stopScan = 1 /\ state # Scanning) =>
               clientVars' = clientVars]_vars

(* Both tasks have returned from StopScan, called while the scan          *)
(* goroutine was running, and the state is Disconnected.                  *)
C13_Witness ==
  /\ \A t \in Tasks : call[t].op = "StopScan" /\ call[t].pc = "idle"
  /\ \E i \in ScanSlots : scanStopped[i]
  /\ state = Disconnected

(* C14: once a StopScan has returned during the scan session, or the      *)
(* context is cancelled, nothing more is pushed onto the device channel.  *)
C14_NoPushAfterStop ==
  [][(ctxDone \/ \E i \in ScanSlots : scanStopped[i]) =>
       Len(deviceChan') <= Len(deviceChan)]_vars

(* C15: once a StopScan has returned during the scan session, or the      *)
(* context is cancelled, the goroutine's loop does not call adapter.Scan  *)
(* again.                                                                 *)
C15_NoScanAfterStop ==
  [][\A i \in ScanSlots :
       (scanStopped[i] \/ ctxDone) =>
         ~(scanPc[i] = "select" /\ scanPc'[i] = "scan")]_vars

(* The goroutine's step is its return on the cancelled context. *)
ExitsOnCancel(i) ==
  /\ scanPc[i] = "select"
  /\ scanPc'[i] = "none"
  /\ stopScan' = stopScan
  /\ ctxDone

(* C16: when the scan goroutine ends on the cancelled context while the   *)
(* state is Scanning, the state becomes Disconnected.                     *)
C16_CancelDisconnects ==
  [][\A i \in ScanSlots :
       (ExitsOnCancel(i) /\ state = Scanning) => state' = Disconnected]_vars

(* The goroutine's step is adapter.Scan returning an error. *)
ScanFails(i) == scanPc[i] = "scan" /\ scanPc'[i] \notin {"scan", "send", "select"}

(* C17: when adapter.Scan returns an error the goroutine records it as    *)
(* the last error, sets the state to Error and ends without calling      *)
(* adapter.Scan again.                                                    *)
C17_ScanErrorStops ==
  [][\A i \in ScanSlots :
       ScanFails(i) =>
         /\ lastError' = ErrScan
         /\ state' = Error
         /\ scanPc'[i] = "none"]_vars

(* The scan goroutine has ended on a scan error. *)
C17_Witness ==
  /\ \E i \in ScanSlots : scanPc[i] = "none"
  /\ \E t \in Tasks : call[t].op = "ScanForDevices"
  /\ state = Error
  /\ lastError = ErrScan

(* C18: the callback is never suspended in its send on the device         *)
(* channel.                                                               *)
C18_CallbackNeverBlocks == \A i \in ScanSlots : scanPc[i] # "send"

(* d is built from an advertisement with a non-empty name the identifier  *)
(* filter accepts, with that advertisement's name, address and RSSI.      *)
FromAdvertisement(d) ==
  \E r \in Advertisements :
    /\ r.LocalName # <<>>
    /\ containsSonyIdentifier(r.LocalName)
    /\ d = [Name |-> r.LocalName, Address |-> r.Address,
            AddressStr |-> AddressString(r.Address), RSSI |-> r.RSSI]

(* C19: every DeviceInfo on the device channel, or held by a callback     *)
(* waiting to send, is built from a named advertisement the filter        *)
(* accepts; a callback that is neither stopped nor cancelled hands on     *)
(* exactly one DeviceInfo for such an advertisement and none for any      *)
(* other, and leaves the state as it is.                                  *)
C19_DeviceInfoFromAdvertisement ==
  /\ [](/\ \A k \in 1..Len(deviceChan) : FromAdvertisement(deviceChan[k])
        /\ \A i \in ScanSlots : scanPc[i] = "send" => FromAdvertisement(scanPending[i]))
  /\ [][\A i \in ScanSlots : \A r \in Advertisements :
          (ScanCallback(i, r) /\ stopScan = 0 /\ ~ctxDone) =>
            /\ state' = state
            /\ IF r.LocalName # <<>> /\ containsSonyIdentifier(r.LocalName)
                 THEN \/ /\ deviceChan' = Append(deviceChan, DeviceInfo(r))
                         /\ scanPending' = scanPending
                      \/ /\ deviceChan' = deviceChan
                         /\ scanPending'[i] = DeviceInfo(r)
                 ELSE deviceChan' = deviceChan /\ scanPending' = scanPending]_vars

(* The DeviceInfo of ILCE-7M4 at AA:BB:CC:DD:EE:FF with RSSI -45 is on    *)
(* the device channel and the state is Scanning.                          *)
C19_Witness ==
  /\ deviceChan # <<>>
  /\ Head(deviceChan) =
       [Name |-> <<"I", "L", "C", "E", "-", "7", "M", "4">>, Address |-> 1,
        AddressStr |-> "AA:BB:CC:DD:EE:FF", RSSI |-> -45]
  /\ state = Scanning

(* The address strings of the records of a device list. *)
AddressStrings(ds) == {ds[k].AddressStr : k \in 1..Len(ds)}

(* C20: the device list never holds two records with the same address     *)
(* string and is never longer than the number of address strings          *)
(* advertised; a found device whose address string is in the list leaves  *)
(* the list unchanged, any other is appended.                             *)
C20_DevicesUniqueByAddress ==
  /\ [](/\ Cardinality(AddressStrings(devices)) = Len(devices)
        /\ Len(devices) <= Cardinality({AddressString(r.Address) : r \in Advertisements}))
  /\ [][(deviceChan # <<>> /\ deviceChan' = Tail(deviceChan)) =>
          LET d == Head(deviceChan) IN
            IF d.AddressStr \in AddressStrings(devices)
              THEN devices' = devices
              ELSE devices' = Append(devices, d)]_vars

(* The list holds the first record of AA:BB:CC:DD:EE:FF (RSSI -45) and a  *)
(* second device, and a record of the same address with RSSI -52 is the   *)
(* next one the list will be given.                                       *)
C20_Witness ==
  /\ Len(devices) = 2
  /\ devices[1].AddressStr = "AA:BB:CC:DD:EE:FF"
  /\ devices[1].RSSI = -45
  /\ devices[2].AddressStr = "11:22:33:44:55:66"
  /\ deviceChan # <<>>
  /\ Head(deviceChan).AddressStr = "AA:BB:CC:DD:EE:FF"
  /\ Head(deviceChan).RSSI = -52

(* The task's step returns an error from a Client method. *)
ReturnsError(t) ==
  /\ call[t].pc # "idle" \/ Disconnect(t)
  /\ call'[t].pc = "idle"
  /\ call'[t].ret # Nil

(* C21: when a method returns an error, or adapter.Scan fails in the scan *)
(* goroutine, that error is the Client's last error.                      *)
C21_LastErrorIsLatest ==
  [][/\ \A t \in Tasks : ReturnsError(t) => lastError' = call'[t].ret
     /\ \A i \in ScanSlots : ScanFails(i) => lastError' = ErrScan]_vars

(* C22: Disconnect on a Disconnected client returns nil, closes no link   *)
(* and leaves state, device name, last error and stop channel as they     *)
(* were.                                                                  *)
C22_DisconnectNoOp ==
  [][\A t \in Tasks :
       (Disconnect(t) /\ state = Disconnected) =>
         /\ call'[t].ret = Nil
         /\ links' = links
         /\ <<state, deviceName, lastError, stopScan>>' =
              <<state, deviceName, lastError, stopScan>>]_vars

(* C26: the device name is empty whenever the state is not Connected.     *)
C26_NameOnlyWhenConnected == state # Connected => deviceName = ""

(* A scan goroutine is running. *)
ScanAlive == \E i \in DOMAIN scanPc : scanPc[i] # "none"

(* A Connect is between its entry and its return. *)
HandshakeRunning == \E t \in Tasks : call[t].pc \in {"c_link", "c_svc", "c_char"}

(* C28: no scan goroutine is running while a Connect handshake is in      *)
(* progress or the state is Connecting or Connected, so that a failing    *)
(* adapter.Scan cannot replace Connecting or Connected by Error.          *)
C28_NoScanWhileConnecting ==
  ScanAlive => (~HandshakeRunning /\ state \notin {Connecting, Connected})

(* The goroutine's step is its return on a value received from stopScan. *)
ExitsOnStop(i) ==
  /\ scanPc[i] = "select"
  /\ scanPc'[i] = "none"
  /\ stopScan' < stopScan

(* A StopScan has been called since the goroutine started. *)
StopCalledDuring(i) == scanStopped[i] \/ \E t \in Tasks : i \in call[t].scans

(* C30: while the state is Scanning, a scan goroutine does not end on a   *)
(* stop value when every StopScan call was over before that goroutine     *)
(* started.                                                               *)
C30_NoStaleStop ==
  [][\A i \in ScanSlots :
       (ExitsOnStop(i) /\ state = Scanning) =>
         (StopCalledDuring(i) \/ \E t \in Tasks : call[t].pc = "stop")]_vars

(* C23: Disconnect on a Connected client either closes the link of the   *)
(* device handle, returns nil, sets the state to Disconnected and empties *)
(* the device name, or leaves the link, returns the radio's error,        *)
(* records it as the last error and sets the state to Error.              *)
C23_DisconnectWhenConnected ==
  [][\A t \in Tasks :
       (Disconnect(t) /\ state = Connected) =>
         \/ /\ call'[t].ret = Nil
            /\ links' = links \ {device}
            /\ state' = Disconnected
            /\ deviceName' = ""
         \/ /\ call'[t].ret = ErrDisconnect
            /\ lastError' = ErrDisconnect
            /\ state' = Error
            /\ links' = links]_vars

(* A Disconnect has failed: the state is Error, the last error is the one *)
(* returned and the link is still open.                                   *)
C23_Witness ==
  \E t \in Tasks :
    /\ call[t].op = "Disconnect"
    /\ call[t].ret = ErrDisconnect
    /\ state = Error
    /\ lastError = ErrDisconnect
    /\ device \in links

(* The task's step is the last handshake step of a Connect, succeeding. *)
ConnectSucceeds(t) ==
  /\ call[t].pc = "c_char"
  /\ call'[t].pc = "idle"
  /\ call'[t].ret = Nil

(* C24: from whatever state it is called in, Connect sets the state to    *)
(* Connecting and clears the last error; its successful handshake steps   *)
(* leave the last error alone, and the last of them sets the state to     *)
(* Connected and the command characteristic to the one this call          *)
(* discovered, so that a Connected client always has a characteristic     *)
(* for SendCommand to write to.                                           *)
C24_ClientReusable ==
  /\ [](state = Connected => char # 0)
  /\ [][\A t \in Tasks :
          /\ CallsConnect(t) => (state' = Connecting /\ lastError' = Nil)
          /\ (Handshakes(t) /\ LastStep(call'[t])[2] = "ok") => lastError' = lastError
          /\ ConnectSucceeds(t) => (state' = Connected /\ char' = call[t].dev)]_vars

(* After an earlier connection, a second Connect has succeeded on a new   *)
(* link and a SendCommand has written through its characteristic: the     *)
(* state is Connected and no error is recorded.                           *)
C24_Witness ==
  /\ state = Connected
  /\ lastError = Nil
  /\ char = 2
  /\ device = 2
  /\ 2 \in links
  /\ \E t \in Tasks : call[t].op = "Connect" /\ call[t].pc = "idle" /\ call[t].ret = Nil
  /\ \E t \in Tasks :
       /\ call[t].op = "SendCommand"
       /\ call[t].pc = "idle"
       /\ call[t].ret = Nil
       /\ call[t].sent = << <<1, 7>> >>

(* The zero value of SonyCommand. *)
ZeroCommand == [Name |-> "", Code |-> <<>>]

(* C25: sendCommand with a key the registry lacks returns the             *)
(* unknown-command error for that key, writes nothing and leaves the      *)
(* Client as it is; no SendCommand is ever given the zero command and no  *)
(* empty byte-code is ever written.                                       *)
C25_UnknownKeyRejected ==
  /\ [](\A t \in Tasks :
          /\ \A k \in 1..Len(call[t].cmds) :
               /\ call[t].cmds[k] # ZeroCommand
               /\ call[t].cmds[k].Name # ""
               /\ call[t].cmds[k].Code # <<>>
          /\ \A k \in 1..Len(call[t].sent) : call[t].sent[k] # <<>>
          /\ call[t].op = "sendCommand" => call[t].sent = <<>>)
  /\ [][\A t \in Tasks : \A k \in KeyInputs \ CommandKeys :
          sendCommand(t, k) =>
            /\ call'[t].pc = "idle"
            /\ call'[t].ret = ErrUnknownCommand(k)
            /\ clientVars' = clientVars]_vars

(* On a Connected client a sendCommand with the key self_timer has        *)
(* returned the unknown-command error.                                    *)
C25_Witness ==
  /\ state = Connected
  /\ \E t \in Tasks :
       /\ call[t].op = "sendCommand"
       /\ call[t].pc = "idle"
       /\ call[t].ret = <<"unknown command", "self_timer">>
       /\ call[t].sent = <<>>

(* id occurs in name: at some position the bytes of name are those of id. *)
Occurs(id, name) ==
  \E p \in 1..Len(name) :
    \A j \in 1..Len(id) : p + j - 1 <= Len(name) /\ name[p + j - 1] = id[j]

(* The identifiers the filter must accept. *)
AcceptedIdentifiers ==
  { <<"I", "L", "C", "E">>, <<"D", "S", "C">>, <<"F", "X">>,
    <<"A", "l", "p", "h", "a">>, <<"xCE", "xB1">> }

(* The filter's fixed identifiers. *)
FixedIdentifiers == AcceptedIdentifiers \cup { <<"S", "o", "n", "y">> }

(* The names of FilterNames the filter must accept, and those it must    *)
(* refuse.                                                                *)
NamesToAccept == {n \in FilterNames : \E id \in AcceptedIdentifiers : Occurs(id, n)}
NamesToRefuse ==
  {n \in FilterNames : n = <<>> \/ ~\E id \in FixedIdentifiers : Occurs(id, n)}

(* The filter's verdicts on FilterNames are the required ones. *)
FilterVerdicts ==
  /\ \A n \in NamesToAccept : containsSonyIdentifier(n)
  /\ \A n \in NamesToRefuse : ~containsSonyIdentifier(n)

(* C27: the filter accepts every name in which ILCE, DSC, FX, Alpha or    *)
(* the alpha symbol occurs, and refuses the empty name and every name in  *)
(* which no fixed identifier occurs; no name to refuse reaches the device *)
(* channel, and the callback hands on a DeviceInfo for every name to      *)
(* accept.                                                                *)
C27_FilterBySubstring ==
  /\ [](FilterVerdicts)
  /\ [](\A k \in 1..Len(deviceChan) : deviceChan[k].Name \notin NamesToRefuse)
  /\ [][\A i \in ScanSlots :
          (scanPc[i] = "scan" /\ stopScan = 0 /\ ~ctxDone) =>
            \A n \in NamesToAccept :
              ScanCallback(i, [LocalName |-> n, Address |-> 1, RSSI |-> -45]) =>
                (Len(deviceChan') = Len(deviceChan) + 1 \/ scanPc'[i] = "send")]_vars

(* A name with the identifier DSC at its very end is on the channel and   *)
(* the callback holds one with FX in the middle.                          *)
C27_Witness ==
  /\ deviceChan # <<>>
  /\ Head(deviceChan).Name = <<"x", "D", "S", "C">>
  /\ \E i \in ScanSlots :
       /\ scanPc[i] = "send"
       /\ scanPending[i].Name = <<"x", "F", "X", "7">>

(* C29: at most one scan goroutine is running at any time.                *)
C29_OneScanTask ==
  Cardinality({i \in AllScanSlots : scanPc[i] # "none"}) <= 1

(* No command goroutine of the TUI is running or has a result that Update *)
(* has yet to process.                                                    *)
NoCommandPending == \A t \in Tasks : call[t] = IdleFrame

(* C31: the TUI's scanning flag is set only while a scan session is       *)
(* active: in the device list, once no command is pending, a set flag     *)
(* means a scan goroutine is running; after a stop by Esc or Enter or a   *)
(* scan error the flag is clear, which is what Tab needs to start a scan. *)
C31_ScanningOnlyWhileSession ==
  (mode = ModeDeviceList /\ scanning /\ NoCommandPending) => ScanAlive

(* The frame f is that of a command the key started. *)
StartedBy(f, key) ==
  /\ f # IdleFrame
  /\ IF key = " "
       THEN f.op = "TakePhoto"
       ELSE f.op = "SendCommand" /\ f.cmds = <<Commands[KeyCommand(key)]>>

(* C32: a button is marked active only while a command started by one of  *)
(* its keys is running or has a result not yet processed: processing the  *)
(* commandSentMsg resets the button the key press set.                    *)
C32_ButtonResetOnResult ==
  \A key \in SendingKeys :
    MapGet(buttonStates, Button(key)) =>
      \E t \in Tasks : \E other \in SendingKeys :
        Button(other) = Button(key) /\ StartedBy(call[t], other)

(* The registry's press keys and the release key of each (commands.go,    *)
(* the *_down and *_up entries of Commands).                              *)
PressKeys ==
  {"focus_down", "autofocus_down", "shutter_half_down", "shutter_full_down",
   "zoom_in_down", "zoom_out_down", "c1_down"}
ReleaseKey(k) ==
  CASE k = "focus_down" -> "focus_up"
    [] k = "autofocus_down" -> "autofocus_up"
    [] k = "shutter_half_down" -> "shutter_half_up"
    [] k = "shutter_full_down" -> "shutter_full_up"
    [] k = "zoom_in_down" -> "zoom_in_up"
    [] k = "zoom_out_down" -> "zoom_out_up"
    [] k = "c1_down" -> "c1_up"

(* Every press byte-code in the written codes is followed by its release. *)
PressesReleased(sent) ==
  \A p \in 1..Len(sent) : \A k \in PressKeys :
    sent[p] = Commands[k].Code =>
      \E q \in (p + 1)..Len(sent) : sent[q] = Commands[ReleaseKey(k)].Code

(* C33: when a command started by a control key has completed without     *)
(* error, every press byte-code it wrote has been followed by a write of  *)
(* the matching release, so that no camera action stays latched.          *)
C33_PressFollowedByRelease ==
  \A t \in Tasks :
    (call[t].pc = "idle" /\ call[t].op \in {"SendCommand", "TakePhoto"}
       /\ call[t].ret = Nil) =>
      PressesReleased(call[t].sent)

====
